---------------------------- MODULE Spec2Model ----------------------------
(***************************************************************************)
(* A model of library/modules/ImTuiImpl.cpp: the input translator          *)
(* (cleanup_keys, impl::new_frame), the window ordering reconciler         *)
(* (on_render_start, claim_current_imgui_window, on_render_end) and the    *)
(* draw-command interpreter (impl::draw_frame, drawTriangle, ScanLine).    *)
(***************************************************************************)
EXTENDS Integers, Sequences, FiniteSets, TLC

(***************************************************************************)
(* Bounds of the model.                                                    *)
(***************************************************************************)
\* Largest number of entries of danger_key_frames the model lets exist.
MaxTimers == 2
\* Largest number of host layers open at once in one render pass.
MaxDepth == 2
\* Largest number of windows claimed in one render pass.
MaxClaims == 2
\* Largest age a danger timer reaches before the model stops ageing it.
MaxAge == 12
\* Largest number of on_feed_start calls open at once.
MaxFeedDepth == 2
\* Largest number of host layers open at once over the nested windows.
MaxNesting == 3
\* Size of the host display, in cells
DisplayWidth == 6
DisplayHeight == 6

(***************************************************************************)
(* Input translator: the host's key vocabulary.                            *)
(***************************************************************************)
\* '4', '6', '8', '2': the characters whose keys double as direction keys.
DirectionChars == {"4", "6", "8", "2"}

\* Screen::charToKey: the interface_key of a printable character
\* (STRING_A000 + the character's code).
charToKey(c) ==
    CASE c = "4" -> "STRING_A052"
      [] c = "6" -> "STRING_A054"
      [] c = "8" -> "STRING_A056"
      [] c = "2" -> "STRING_A050"

DigitKeys == {charToKey(c) : c \in DirectionChars}
CursorKeys == {"CURSOR_LEFT", "CURSOR_RIGHT", "CURSOR_UP", "CURSOR_DOWN"}
\* The part of df::interface_key the model lets the host press.
InterfaceKeys == DigitKeys \cup CursorKeys \cup {"SELECT"}

\* The key sets the host hands to a frame: no key, one key, or any two keys.
HostKeySets == {{}} \cup {{a, b} : a, b \in InterfaceKeys}


VARIABLES
    \* ui_state / ImGuiIO: the input translator's state
    unprocessed_keys,    \* ui_state::unprocessed_keys
    danger_key_frames,   \* ui_state::danger_key_frames: digit key -> age
    keysDown,            \* io.KeysDown, as the set of keys marked down
    \* history of the input translator
    frame_keys,          \* the key set handed to the latest impl::new_frame
    last_seen,           \* digit key -> frames processed since it was in a
                         \* frame's key set (-1: never seen)
    \* the GUI library's context
    GImGui,              \* the current context (ImGui::GetCurrentContext)
    ctx_Windows,         \* ctx->Windows: display order, back to front
    ctx_WindowsFocusOrder, \* ctx->WindowsFocusOrder
    ChildWindows,        \* window -> its DC.ChildWindows
    \* ui_state: the reconciler's bookkeeping
    last_context,        \* ui_state::last_context
    windows,             \* ui_state::windows: depth -> claimed names
    rendered_windows,    \* ui_state::rendered_windows
    render_stack,        \* ui_state::render_stack
    suppressed_keys,     \* ui_state::suppressed_keys: depth -> keys
    \* the host's callers
    layers,              \* the open on_render_start calls: <<is_top, id>>
    \* history of the reconciler
    last_call,           \* the latest entry point called, with what it saw
    pass_collected,      \* the window sets the on_render_end calls of the
                         \* current pass collected, in call order
    \* ui_state: the flags of the keyboard passthrough
    should_pass_keyboard_up,            \* ui_state::should_pass_keyboard_up
    suppress_next_keyboard_passthrough, \* ui_state::suppress_next_keyboard_passthrough
    \* history of the session
    activations,         \* the activate() calls not yet matched by a
                         \* deactivate(): [before, nested], before being the
                         \* context that was current, nested whether another
                         \* activate() has run since
    fed_keys,            \* the keys passed to feed() since the latest newFrame
    requests,            \* what the layers asked for: feed_upwards and
                         \* suppress since the latest on_feed_end, the keys
                         \* declared suppressed since the latest top-level
                         \* on_render_start or final dismiss, and whether
                         \* the latest on_feed_end ran under a suppress
    \* the draw-command interpreter
    drawData,            \* the ImDrawData handed to draw_frame
    draw_pc,             \* draw_frame's position: idle, start, walk, done
    draw_i,              \* the walk's index i into the command's elements
    lastChar,            \* <<lastCharX, lastCharY>>, as numerators over 12
    screen,              \* the host's screen: cell -> pen
    \* history of the interpreter
    walk,                \* the primitives walked: [i, kind, cells written]
    \* a call of named_colours
    colour_args,         \* <<fg, bg, bold>>
    colour_result        \* <<>> before the call returns, then <<its value>>

inputVars == <<unprocessed_keys, danger_key_frames, keysDown, frame_keys,
               last_seen>>

windowVars == <<GImGui, ctx_Windows, ctx_WindowsFocusOrder, ChildWindows,
                last_context, windows, rendered_windows, render_stack,
                suppressed_keys, layers, last_call, pass_collected>>

feedVars == <<should_pass_keyboard_up, suppress_next_keyboard_passthrough,
              activations, fed_keys, requests>>

colourVars == <<colour_args, colour_result>>

drawVars == <<drawData, draw_pc, draw_i, lastChar, screen, walk>>

(***************************************************************************)
(* Colours                                                                 *)
(***************************************************************************)
\* name_to_colour_index: the table names.
names ==
    [RESET |-> -1, BLACK |-> 0, BLUE |-> 1, GREEN |-> 2, CYAN |-> 3,
     RED |-> 4, MAGENTA |-> 5, BROWN |-> 6, GREY |-> 7, DARKGREY |-> 8,
     LIGHTBLUE |-> 9, LIGHTGREEN |-> 10, LIGHTCYAN |-> 11, LIGHTRED |-> 12,
     LIGHTMAGENTA |-> 13, YELLOW |-> 14, WHITE |-> 15, MAX |-> 16]

\* name_to_colour_index(name), for a name of the table.
name_to_colour_index(name) == names[name]

\* std::vector::resize(n): the first n elements, zeros where there is none.
Resize(vec, n) == [k \in 1..n |-> IF k <= Len(vec) THEN vec[k] ELSE 0]

\* colour_interop(col3): the ImVec4 {x, y, z, w}.
colour_interop(col3) ==
    LET r == Resize(col3, 3)
    IN  [x |-> r[1], y |-> r[2], z |-> r[3], w |-> 1]

named_colours_swapped(fg, bg, bold) ==
    colour_interop(<<name_to_colour_index(bg), name_to_colour_index(fg),
                     IF bold THEN 1 ELSE 0>>)

\* named_colours(fg, bg, bold)
named_colours(fg, bg, bold) ==
    colour_interop(<<name_to_colour_index(fg), name_to_colour_index(bg),
                     IF bold THEN 1 ELSE 0>>)

\* A call of named_colours with the arguments drawn at the start.
call_named_colours ==
    /\ colour_args # <<>>
    /\ colour_result = <<>>
    /\ colour_result' =
          <<named_colours(colour_args[1], colour_args[2], colour_args[3])>>
    /\ UNCHANGED <<inputVars, windowVars, feedVars, drawVars, colour_args>>

InitNoColour ==
    /\ colour_args = <<>>
    /\ colour_result = <<>>

InitColour ==
    /\ colour_args \in (DOMAIN names) \X (DOMAIN names) \X BOOLEAN
    /\ colour_result = <<>>

(***************************************************************************)
(* cleanup_keys                                                            *)
(***************************************************************************)
to_kill_if_seen_swapped ==
    (charToKey("4") :> {"CURSOR_RIGHT"}) @@ (charToKey("6") :> {"CURSOR_LEFT"})
    @@ (charToKey("8") :> {"CURSOR_DOWN"}) @@ (charToKey("2") :> {"CURSOR_UP"})

\* The table cleanup_keys builds: digit key -> the events to kill.
to_kill_if_seen ==
    (charToKey("4") :> {"CURSOR_LEFT"}) @@ (charToKey("6") :> {"CURSOR_RIGHT"})
    @@ (charToKey("8") :> {"CURSOR_UP"}) @@ (charToKey("2") :> {"CURSOR_DOWN"})

max_suppress_frames_short == 10 - 2
max_suppress_frames_long == 10 + 1

max_suppress_frames == 10

\* First loop of cleanup_keys, on the timers: every trigger found in keys
\* gets danger_key_time[trigger] = 0.
restart_timers(keys, danger_key_time) ==
    LET found == {t \in DOMAIN to_kill_if_seen : t \in keys}
    IN  [t \in (DOMAIN danger_key_time) \cup found |->
            IF t \in found THEN 0 ELSE danger_key_time[t]]

\* First loop of cleanup_keys, on the keys: the events paired with a
\* trigger found in keys are erased.
kill_seen(keys) ==
    keys \ UNION {to_kill_if_seen[t] : t \in {u \in DOMAIN to_kill_if_seen : u \in keys}}

\* Second loop of cleanup_keys: the events of every timer still within
\* max_suppress_frames are erased.
kill_recent(keys, danger_key_time) ==
    keys \ UNION {to_kill_if_seen[t] :
                    t \in {u \in DOMAIN danger_key_time :
                             danger_key_time[u] <= max_suppress_frames}}

\* The key set cleanup_keys returns; danger_key_time is updated to
\* restart_timers(keys, danger_key_time).
cleanup_keys(keys, danger_key_time) ==
    kill_recent(kill_seen(keys), restart_timers(keys, danger_key_time))

age_timers_never(danger_key_time) == danger_key_time

\* impl::new_frame: every timer is aged by one.
age_timers(danger_key_time) ==
    [t \in DOMAIN danger_key_time |-> danger_key_time[t] + 1]

reset_input_keeping(down) == down

\* impl::reset_input: io.KeysDown once it has filled it with false.
reset_input(down) == {}

\* What impl::new_frame(keys, st) does to the input translator's state.
\* reset_input clears io.KeysDown, then every surviving key is marked down.
NewFrameInput(keys) ==
    /\ danger_key_frames' = age_timers(restart_timers(keys, danger_key_frames))
    /\ keysDown' = reset_input(keysDown) \cup cleanup_keys(keys, danger_key_frames)
    /\ frame_keys' = keys
    /\ last_seen' = [t \in DigitKeys |->
                        IF t \in keys THEN 0
                        ELSE IF last_seen[t] < 0 THEN last_seen[t]
                        ELSE last_seen[t] + 1]

\* The model's guard on a frame: no timer grows past MaxAge and no more
\* than MaxTimers timers exist.
FrameWithinBounds(keys) ==
    /\ \A t \in DOMAIN danger_key_frames :
          t \in keys \/ danger_key_frames[t] < MaxAge
    /\ Cardinality((DOMAIN danger_key_frames) \cup (keys \cap DigitKeys))
          <= MaxTimers

\* impl::new_frame(keys, st), called with a key set of the host.
impl_new_frame(keys) ==
    /\ FrameWithinBounds(keys)
    /\ NewFrameInput(keys)
    /\ UNCHANGED <<unprocessed_keys, windowVars, feedVars, drawVars,
                   colourVars>>

(***************************************************************************)
(* The GUI library, as far as the reconciler reads and reorders it.        *)
(***************************************************************************)
\* The names of the windows the widget code may open.
WindowNames == {"A", "B", "C"}
NoWindow == "none"

\* The order in which the model lets the widget code create the windows.
CreationOrder == <<"A", "B", "C">>

ToSet(seq) == {seq[i] : i \in DOMAIN seq}

\* The position of a window in a list that holds it once.
Pos(seq, w) == CHOOSE i \in DOMAIN seq : seq[i] = w

\* The sequences that hold each element of seq as often as seq does, for a
\* seq without repetitions.
Reorderings(seq) ==
    {p \in [DOMAIN seq -> ToSet(seq)] : ToSet(p) = ToSet(seq)}

\* ImGui::SortWindows(in): the library's child-aware sort; the model lets
\* it return any permutation of its input.
SortWindows(in) == Reorderings(in)

\* ImGui::Begin of a window that does not exist yet: the library appends
\* it to both global lists and, a child window, to its parent's
\* DC.ChildWindows.
Begin(parent) ==
    /\ layers # <<>>
    /\ Len(ctx_Windows) < Len(CreationOrder)
    /\ parent \in ToSet(ctx_Windows) \cup {NoWindow}
    /\ LET win == CreationOrder[Len(ctx_Windows) + 1]
       IN  /\ ctx_Windows' = Append(ctx_Windows, win)
           /\ ctx_WindowsFocusOrder' = Append(ctx_WindowsFocusOrder, win)
           /\ ChildWindows' =
                 IF parent = NoWindow THEN ChildWindows
                 ELSE [ChildWindows EXCEPT ![parent] = Append(@, win)]
    /\ last_call' = [op |-> "Begin"]
    /\ UNCHANGED <<inputVars, GImGui, last_context, windows, rendered_windows,
                   render_stack, suppressed_keys, layers, pass_collected,
                   feedVars, drawVars,
                   colourVars>>

(***************************************************************************)
(* ui_state and the viewscreen entry points.                               *)
(***************************************************************************)
\* The context make_ui_system created (ui_state::ctx).
ctx == "ctx"
NULL == "NULL"

\* std::map::operator[] read: the claimed list of a depth, empty when the
\* map holds no entry for it.
WindowsAt(map, id) == IF id \in DOMAIN map THEN map[id] ELSE <<>>

\* st.windows[depth].push_back(name)
PushWindow(map, depth, name) ==
    [d \in (DOMAIN map) \cup {depth} |->
        IF d = depth THEN Append(WindowsAt(map, depth), name) ELSE map[d]]

RECURSIVE SumOfLengths(_, _)
SumOfLengths(map, depths) ==
    IF depths = {} THEN 0
    ELSE LET d == CHOOSE x \in depths : TRUE
         IN  Len(map[d]) + SumOfLengths(map, depths \ {d})

\* The number of names in the claimed lists of all depths.
TotalClaims(map) == SumOfLengths(map, DOMAIN map)

\* viewscreen::claim_current_imgui_window, the current window being win.
claim_current_imgui_window(win) ==
    /\ layers # <<>>
    /\ win \in ToSet(ctx_Windows)
    /\ TotalClaims(windows) < MaxClaims
    /\ windows' = PushWindow(windows, render_stack, win)
    /\ last_call' = [op |-> "claim_current_imgui_window"]
    /\ UNCHANGED <<inputVars, GImGui, ctx_Windows, ctx_WindowsFocusOrder,
                   ChildWindows, last_context, rendered_windows, render_stack,
                   suppressed_keys, layers, pass_collected, feedVars,
                   drawVars,
                   colourVars>>

\* The keys a layer's widget code declares suppressed.
DeclaredKeys == {"SELECT", "CURSOR_LEFT"}

\* suppressed_keys once key is inserted in the set of depth.
InsertKey(map, depth, key) ==
    [d \in (DOMAIN map) \cup {depth} |->
        IF d = depth
        THEN (IF d \in DOMAIN map THEN map[d] ELSE {}) \cup {key}
        ELSE map[d]]

\* viewscreen::declare_suppressed_key(key), called by the widget code of a
\* layer during a pass.
declare_suppressed_key(key) ==
    /\ layers # <<>>
    /\ suppressed_keys' = InsertKey(suppressed_keys, render_stack, key)
    /\ requests' = [requests EXCEPT !.declared = @ \cup {key}]
    /\ last_call' = [op |-> "declare_suppressed_key"]
    /\ UNCHANGED <<inputVars, GImGui, ctx_Windows, ctx_WindowsFocusOrder,
                   ChildWindows, last_context, windows, rendered_windows,
                   render_stack, layers, pass_collected,
                   should_pass_keyboard_up, suppress_next_keyboard_passthrough,
                   activations, fed_keys, drawVars,
                   colourVars>>

suppressed_keys_kept(keys) == keys

\* st.suppressed_keys.clear()
suppressed_keys_clear(keys) == <<>>

\* ui_state::activate: the context it saves in last_context.
activate_saved_none(current) == NULL

activate_saved(current) == current

\* The activations once activate() has run with current the current context.
PushActivation(acts, current) ==
    Append([k \in DOMAIN acts |-> [acts[k] EXCEPT !.nested = TRUE]],
           [before |-> current, nested |-> FALSE])

\* viewscreen::on_render_start(is_top). The host opens a pass with
\* is_top = true and nests the layers below it with is_top = false; its
\* screen stack is a chain, so no layer enters once one has exited.
on_render_start(is_top) ==
    /\ is_top <=> (layers = <<>>)
    /\ ~is_top => pass_collected = <<>>
    \* the host renders outside its feed calls
    /\ is_top => activations = <<>>
    /\ is_top => FrameWithinBounds(unprocessed_keys)
    /\ IF is_top
       THEN /\ windows' = <<>>
            /\ rendered_windows' = {}
            /\ render_stack' = 0 + 1
            /\ suppressed_keys' = suppressed_keys_clear(suppressed_keys)
            /\ requests' = [requests EXCEPT !.declared = {}]
            \* st.activate()
            /\ last_context' = activate_saved(GImGui)
            /\ GImGui' = ctx
            /\ activations' = PushActivation(activations, GImGui)
            \* st.new_frame()
            /\ NewFrameInput(unprocessed_keys)
            /\ unprocessed_keys' = {}
            /\ fed_keys' = {}
            /\ pass_collected' = <<>>
       ELSE /\ render_stack' = render_stack + 1
            /\ UNCHANGED <<inputVars, windows, rendered_windows,
                           suppressed_keys, last_context, GImGui,
                           pass_collected, activations, fed_keys, requests>>
    /\ layers' = Append(layers, <<is_top, render_stack'>>)
    /\ last_call' = [op |-> "on_render_start", is_top |-> is_top,
                     token |-> render_stack', fed |-> fed_keys]
    /\ UNCHANGED <<ctx_Windows, ctx_WindowsFocusOrder, ChildWindows,
                   should_pass_keyboard_up, suppress_next_keyboard_passthrough,
                   drawVars,
                   colourVars>>

imgui_build_windows_named_only(name, ignore, is_top) ==
    SelectSeq(ctx_Windows,
              LAMBDA next : next \in ToSet(name) /\ next \notin ignore)

\* imgui_build_windows: the context's windows, in display order, that are
\* named in name (all of them when is_top) and not in ignore.
imgui_build_windows(name, ignore, is_top) ==
    LET keep(next) == ~(next \notin ToSet(name) /\ ~is_top) /\ next \notin ignore
    IN  SelectSeq(ctx_Windows, keep)

RECURSIVE imgui_append_all(_, _)
RECURSIVE imgui_append_unchecked(_, _)
RECURSIVE imgui_append_pruned(_, _)
RECURSIVE imgui_append(_, _)

imgui_append_pruned(should_ignore, win) ==
    IF win \in should_ignore THEN <<>>
    ELSE <<win>> \o imgui_append_all(should_ignore, ChildWindows[win])

imgui_append_unchecked(should_ignore, win) ==
    <<win>> \o imgui_append_all(should_ignore, ChildWindows[win])

\* imgui_append: win, unless should_ignore names it, then what
\* imgui_append yields for each of its child windows.
imgui_append(should_ignore, win) ==
    (IF win \notin should_ignore THEN <<win>> ELSE <<>>)
        \o imgui_append_all(should_ignore, ChildWindows[win])

\* The loop over a window list that calls imgui_append on each
\* (imgui_append_children, and the loop over DC.ChildWindows).
imgui_append_all(should_ignore, in) ==
    IF in = <<>> THEN <<>>
    ELSE imgui_append(should_ignore, Head(in))
            \o imgui_append_all(should_ignore, Tail(in))

imgui_append_children(in, should_ignore) == imgui_append_all(should_ignore, in)

imgui_pull_from_context_in_display_order_none(wins) == <<>>

imgui_pull_from_context_in_display_order_raw(wins) == wins

\* imgui_pull_from_context_in_display_order: ctx->Windows filtered to wins.
imgui_pull_from_context_in_display_order(wins) ==
    LET keep(win) == win \in ToSet(wins)
    IN  SelectSeq(ctx_Windows, keep)

imgui_pull_from_context_in_focus_order_reversed(wins) ==
    LET keep(win) == win \in ToSet(wins)
        pulled == SelectSeq(ctx_WindowsFocusOrder, keep)
    IN  [k \in DOMAIN pulled |-> pulled[Len(pulled) + 1 - k]]

\* imgui_pull_from_context_in_focus_order
imgui_pull_from_context_in_focus_order(wins) ==
    LET keep(win) == win \in ToSet(wins)
    IN  SelectSeq(ctx_WindowsFocusOrder, keep)

imgui_rearrange_to_back(global, order) ==
    LET untouched(win) == win \notin ToSet(order)
    IN  order \o SelectSeq(global, untouched)

\* imgui_rearrange_internals, for one of the two global lists: the windows
\* not in order, as they were, then order.
imgui_rearrange(global, order) ==
    LET untouched(win) == win \notin ToSet(order)
    IN  SelectSeq(global, untouched) \o order

depth_after_end_stuck(depth) == depth

depth_after_end_reset(depth) == 0

\* st.render_stack-- of on_render_end
depth_after_end(depth) == depth - 1

render_end_calls_draw_last(is_top) ==
    <<"imgui_rearrange_internals", "ProgressiveRender", "render_stack--">>
        \o (IF is_top THEN <<"EndFrame", "deactivate">> ELSE <<>>)
        \o <<"draw_frame">>

\* The calls and the decrement on_render_end makes once the windows are
\* collected, in the order of its statements.
render_end_calls(is_top) ==
    <<"imgui_rearrange_internals", "ProgressiveRender", "draw_frame",
      "render_stack--">>
        \o (IF is_top THEN <<"EndFrame", "deactivate">> ELSE <<>>)

\* viewscreen::on_render_end(is_top, id), called by the layer that was
\* opened last, with the flag and the token of its on_render_start.
on_render_end(is_top, id) ==
    /\ layers # <<>>
    /\ layers[Len(layers)] = <<is_top, id>>
    /\ LET my_windows == WindowsAt(windows, id)
           unsorted_windows_without_children ==
               imgui_build_windows(my_windows, rendered_windows, is_top)
           unsorted_windows ==
               imgui_append_children(unsorted_windows_without_children,
                                     rendered_windows)
           pulled == imgui_pull_from_context_in_display_order(unsorted_windows)
           focus_order == imgui_pull_from_context_in_focus_order(unsorted_windows)
       IN  \E display_order \in SortWindows(pulled) :
             /\ windows' = [d \in (DOMAIN windows) \cup {id} |->
                              WindowsAt(windows, d)]
             /\ rendered_windows' = rendered_windows \cup ToSet(unsorted_windows)
             /\ ctx_Windows' = imgui_rearrange(ctx_Windows, display_order)
             /\ ctx_WindowsFocusOrder' =
                   imgui_rearrange(ctx_WindowsFocusOrder, focus_order)
             /\ last_call' = [op |-> "on_render_end", is_top |-> is_top,
                              id |-> id,
                              Windows |-> ctx_Windows,
                              WindowsFocusOrder |-> ctx_WindowsFocusOrder,
                              display_order |-> display_order,
                              focus_order |-> focus_order,
                              my_windows |-> my_windows,
                              rendered_windows |-> rendered_windows,
                              roots |-> unsorted_windows_without_children,
                              unsorted_windows |-> unsorted_windows,
                              ChildWindows |-> ChildWindows,
                              deactivated |-> is_top,
                              activation |->
                                  IF is_top
                                  THEN activations[Len(activations)]
                                  ELSE [before |-> GImGui, nested |-> FALSE],
                              calls |-> render_end_calls(is_top)]
             /\ pass_collected' = Append(pass_collected, ToSet(unsorted_windows))
    /\ render_stack' = depth_after_end(render_stack)
    \* st.deactivate()
    /\ GImGui' = IF is_top THEN last_context ELSE GImGui
    /\ activations' = IF is_top
                      THEN SubSeq(activations, 1, Len(activations) - 1)
                      ELSE activations
    /\ layers' = SubSeq(layers, 1, Len(layers) - 1)
    \* ProgressiveRender leaves draw data without a command here, so
    \* st.draw_frame paints nothing
    /\ UNCHANGED <<inputVars, ChildWindows, last_context, suppressed_keys,
                   should_pass_keyboard_up, suppress_next_keyboard_passthrough,
                   fed_keys, requests, drawVars,
                   colourVars>>

(***************************************************************************)
(* ui_state::feed and the feed entry points of a viewscreen.               *)
(***************************************************************************)
\* The keys argument of the feed entry points: a key set, or the null
\* pointer, kept as a set that is no key set.
NoKeys == {"nullptr"}
FeedKeySets == {{}, {"STRING_A052"}, {"CURSOR_LEFT"}, {"SELECT"}}

feed_replacing(pending, keys) == keys

\* ui_state::feed(keys): the pending keys after it.
feed(pending, keys) == pending \cup keys

\* viewscreen::on_feed_start(is_top, keys). The host feeds outside its
\* render passes; a layer's feed may run inside another layer's.
on_feed_start(is_top, keys) ==
    /\ layers = <<>>
    /\ Len(activations) < MaxFeedDepth
    /\ IF keys # NoKeys /\ is_top
       THEN /\ unprocessed_keys' = feed(unprocessed_keys, keys)
            /\ fed_keys' = fed_keys \cup keys
       ELSE UNCHANGED <<unprocessed_keys, fed_keys>>
    \* st.activate()
    /\ last_context' = activate_saved(GImGui)
    /\ GImGui' = ctx
    /\ activations' = PushActivation(activations, GImGui)
    /\ last_call' = [op |-> "on_feed_start", is_top |-> is_top, keys |-> keys]
    /\ UNCHANGED <<danger_key_frames, keysDown, frame_keys, last_seen,
                   ctx_Windows, ctx_WindowsFocusOrder, ChildWindows, windows,
                   rendered_windows, render_stack, suppressed_keys, layers,
                   pass_collected, should_pass_keyboard_up,
                   suppress_next_keyboard_passthrough, requests, drawVars,
                   colourVars>>

\* viewscreen::feed_upwards()
feed_upwards ==
    /\ should_pass_keyboard_up' = TRUE
    /\ requests' = [requests EXCEPT !.feed_upwards = TRUE]
    /\ last_call' = [op |-> "feed_upwards"]
    /\ UNCHANGED <<inputVars, GImGui, ctx_Windows, ctx_WindowsFocusOrder,
                   ChildWindows, last_context, windows, rendered_windows,
                   render_stack, suppressed_keys, layers, pass_collected,
                   suppress_next_keyboard_passthrough, activations, fed_keys,
                   drawVars, colourVars>>

\* viewscreen::suppress_next_keyboard_feed_upwards()
suppress_next_keyboard_feed_upwards ==
    /\ suppress_next_keyboard_passthrough' = TRUE
    /\ requests' = [requests EXCEPT !.suppress = TRUE]
    /\ last_call' = [op |-> "suppress_next_keyboard_feed_upwards"]
    /\ UNCHANGED <<inputVars, GImGui, ctx_Windows, ctx_WindowsFocusOrder,
                   ChildWindows, last_context, windows, rendered_windows,
                   render_stack, suppressed_keys, layers, pass_collected,
                   should_pass_keyboard_up, activations, fed_keys,
                   drawVars, colourVars>>

suppress_next_mouse_feed_upwards_nothing ==
    /\ suppress_next_keyboard_passthrough' = suppress_next_keyboard_passthrough
    /\ requests' = [requests EXCEPT !.suppress = TRUE]
    /\ last_call' = [op |-> "suppress_next_mouse_feed_upwards"]
    /\ UNCHANGED <<inputVars, GImGui, ctx_Windows, ctx_WindowsFocusOrder,
                   ChildWindows, last_context, windows, rendered_windows,
                   render_stack, suppressed_keys, layers, pass_collected,
                   should_pass_keyboard_up, activations, fed_keys,
                   drawVars, colourVars>>

\* viewscreen::suppress_next_mouse_feed_upwards()
suppress_next_mouse_feed_upwards ==
    /\ suppress_next_keyboard_passthrough' = TRUE
    /\ requests' = [requests EXCEPT !.suppress = TRUE]
    /\ last_call' = [op |-> "suppress_next_mouse_feed_upwards"]
    /\ UNCHANGED <<inputVars, GImGui, ctx_Windows, ctx_WindowsFocusOrder,
                   ChildWindows, last_context, windows, rendered_windows,
                   render_stack, suppressed_keys, layers, pass_collected,
                   should_pass_keyboard_up, activations, fed_keys,
                   drawVars, colourVars>>

\* viewscreen::on_dismiss_final_imgui_aware_viewscreen(), called by the
\* host outside its render passes.
on_dismiss_final_imgui_aware_viewscreen ==
    /\ layers = <<>>
    /\ keysDown' = reset_input(keysDown)
    /\ suppressed_keys' = suppressed_keys_clear(suppressed_keys)
    /\ requests' = [requests EXCEPT !.declared = {}]
    /\ last_call' = [op |-> "on_dismiss_final_imgui_aware_viewscreen"]
    /\ UNCHANGED <<unprocessed_keys, danger_key_frames, frame_keys, last_seen,
                   GImGui, ctx_Windows, ctx_WindowsFocusOrder, ChildWindows,
                   last_context, windows, rendered_windows, render_stack,
                   layers, pass_collected, should_pass_keyboard_up,
                   suppress_next_keyboard_passthrough, activations, fed_keys,
                   drawVars, colourVars>>

AllSuppressedKeys_top ==
    IF 1 \in DOMAIN suppressed_keys THEN suppressed_keys[1] ELSE {}

\* The keys some depth has declared suppressed.
AllSuppressedKeys ==
    UNION {suppressed_keys[d] : d \in DOMAIN suppressed_keys}

\* viewscreen::on_feed_end(keys), closing the feed call opened last.
on_feed_end(keys) ==
    /\ layers = <<>>
    /\ activations # <<>>
    /\ LET skip_feed == keys \cap AllSuppressedKeys # {}
           should_feed ==
               IF /\ should_pass_keyboard_up
                  /\ ~suppress_next_keyboard_passthrough
                  /\ keys # NoKeys
               THEN ~skip_feed
               ELSE FALSE
       IN  last_call' = [op |-> "on_feed_end", keys |-> keys,
                         should_feed |-> should_feed,
                         deactivated |-> TRUE,
                         activation |-> activations[Len(activations)],
                         requests |-> requests]
    /\ suppress_next_keyboard_passthrough' = FALSE
    /\ should_pass_keyboard_up' = FALSE
    /\ requests' = [requests EXCEPT !.feed_upwards = FALSE,
                                    !.suppress = FALSE,
                                    !.ended_suppressed = requests.suppress]
    \* st.deactivate()
    /\ GImGui' = last_context
    /\ activations' = SubSeq(activations, 1, Len(activations) - 1)
    /\ UNCHANGED <<inputVars, ctx_Windows, ctx_WindowsFocusOrder, ChildWindows,
                   last_context, windows, rendered_windows, render_stack,
                   suppressed_keys, layers, pass_collected, fed_keys, drawVars,
                   colourVars>>

(***************************************************************************)
(* The host display and the draw data.                                     *)
(*                                                                         *)
(* A position is kept in half cells: the integer v stands for v / 2.  A    *)
(* vertex is [pos |-> <<x, y>>, uv |-> <<u, v>>, col |-> [x, y], chrs],    *)
(* col being the vertex's packed colour as ColorConvertU32ToFloat4 unpacks  *)
(* it (x: foreground index, y: background index) and chrs the glyph's text. *)
(* A pen is [ch, fg, bg].  A clip rectangle is <<x, y, z, w>>, in cells.    *)
(***************************************************************************)
\* std::floor of a position, in cells.
Floor(v) == v \div 2

Min2(a, b) == IF a <= b THEN a ELSE b
Max2(a, b) == IF a >= b THEN a ELSE b

\* #define ABS(x) ((x >= 0) ? x : -x)
ABS(x) == IF x >= 0 THEN x ELSE -x

\* The cells of the host display (Screen::getWindowSize).
DisplayCells == (0..(DisplayWidth - 1)) \X (0..(DisplayHeight - 1))

\* UTF2DF, for the text units the model uses: a unit the host's encoding
\* holds maps to one unit of it, any other to '?'.
UTF2DF(text) ==
    [k \in DOMAIN text |->
        CASE text[k] = "a" -> "a"
          [] text[k] = "e-acute" -> "cp437-130"
          [] OTHER -> "?"]

(***************************************************************************)
(* ScanLine and drawTriangle                                               *)
(***************************************************************************)
RECURSIVE ScanLoop(_, _, _, _, _, _)

\* The while (cnt--) loop of ScanLine; e holds m, n, dx1, dy1, dx2, dy2 and
\* ymax, which the loop does not change.  scan holds xrange and the
\* positions of xrange the loop has indexed.
ScanLoop(x, y, k, cnt, e, scan) ==
    IF cnt = 0 THEN scan
    ELSE LET widened ==
                 IF (y >= 0) /\ (y < e.ymax)
                 THEN [xrange |->
                          [scan.xrange EXCEPT
                             ![2 * y + 0] = IF x < @ THEN x ELSE @,
                             ![2 * y + 1] = IF x > @ THEN x ELSE @],
                       touched |-> scan.touched \cup {2 * y + 0, 2 * y + 1}]
                 ELSE scan
             k1 == k + e.n
         IN  IF k1 < e.m
             THEN ScanLoop(x + e.dx2, y + e.dy2, k1, cnt - 1, e, widened)
             ELSE ScanLoop(x + e.dx1, y + e.dy1, k1 - e.m, cnt - 1, e, widened)

\* ScanLine: walks the edge from (x1, y1) to (x2, y2) and widens the
\* [min, max] interval of every row 0 <= y < ymax it touches.
ScanLine(x1, y1, x2, y2, ymax, scan) ==
    LET sx == x2 - x1
        sy == y2 - y1
        dx1 == IF sx > 0 THEN 1 ELSE IF sx < 0 THEN -1 ELSE 0
        dy1 == IF sy > 0 THEN 1 ELSE IF sy < 0 THEN -1 ELSE 0
        steep == ABS(sx) < ABS(sy)
        m == IF steep THEN ABS(sy) ELSE ABS(sx)
        n == IF steep THEN ABS(sx) ELSE ABS(sy)
        dx2 == IF steep THEN 0 ELSE dx1
        dy2 == IF steep THEN dy1 ELSE 0
    IN  ScanLoop(x1, y1, n \div 2, m + 1,
                 [m |-> m, n |-> n, dx1 |-> dx1, dy1 |-> dy1, dx2 |-> dx2,
                  dy2 |-> dy2, ymax |-> ymax],
                 scan)

\* g_xrange after drawTriangle's three ScanLine calls, row 0 being the row
\* of ymin, and the positions of g_xrange the calls have indexed.
TriangleScan(p0, p1, p2) ==
    LET ymin == Floor(Min2(Min2(p0[2], p1[2]), p2[2]))
        ymax == Floor(Max2(Max2(p0[2], p1[2]), p2[2]))
        ydelta == ymax - ymin + 1
        g_xrange == [k \in 0..(2 * ydelta - 1) |->
                        IF k % 2 = 0 THEN 999999 ELSE -999999]
        q0 == <<Floor(p0[1]), Floor(p0[2])>>
        q1 == <<Floor(p1[1]), Floor(p1[2])>>
        q2 == <<Floor(p2[1]), Floor(p2[2])>>
        r0 == ScanLine(q0[1], q0[2] - ymin, q1[1], q1[2] - ymin, ydelta,
                       [xrange |-> g_xrange, touched |-> {}])
        r1 == ScanLine(q1[1], q1[2] - ymin, q2[1], q2[2] - ymin, ydelta, r0)
    IN  ScanLine(q2[1], q2[2] - ymin, q0[1], q0[2] - ymin, ydelta, r1)

\* The per-row intervals drawTriangle has after its three ScanLine calls.
TriangleRanges(p0, p1, p2) == TriangleScan(p0, p1, p2).xrange

PaintedCells_short(g_xrange, ymin, ydelta) ==
    {c \in DisplayCells :
        /\ c[2] - ymin \in 0..(ydelta - 1)
        /\ g_xrange[2 * (c[2] - ymin) + 1] >= g_xrange[2 * (c[2] - ymin) + 0]
        /\ c[1] >= g_xrange[2 * (c[2] - ymin) + 0]
        /\ c[1] < g_xrange[2 * (c[2] - ymin) + 1]}

\* The cells drawTriangle's closing loop paints from the intervals: in
\* every row with a non-empty interval, the cells of the interval that
\* lie on the display.
PaintedCells(g_xrange, ymin, ydelta) ==
    {c \in DisplayCells :
        /\ c[2] - ymin \in 0..(ydelta - 1)
        /\ g_xrange[2 * (c[2] - ymin) + 1] >= g_xrange[2 * (c[2] - ymin) + 0]
        /\ c[1] >= g_xrange[2 * (c[2] - ymin) + 0]
        /\ c[1] <= g_xrange[2 * (c[2] - ymin) + 1]}

drawTriangle_unclipped(p0, p1, p2) ==
    LET ymin == Floor(Min2(Min2(p0[2], p1[2]), p2[2]))
        ymax == Floor(Max2(Max2(p0[2], p1[2]), p2[2]))
        g_xrange == TriangleRanges(p0, p1, p2)
    IN  {c \in ((-2)..(DisplayWidth + 1)) \X ((-2)..(DisplayHeight + 1)) :
            /\ c[2] - ymin \in 0..(ymax - ymin)
            /\ c[1] >= g_xrange[2 * (c[2] - ymin) + 0]
            /\ c[1] <= g_xrange[2 * (c[2] - ymin) + 1]}

\* drawTriangle(p0, p1, p2, col): the cells it paints.
drawTriangle(p0, p1, p2) ==
    LET ymin == Floor(Min2(Min2(p0[2], p1[2]), p2[2]))
        ymax == Floor(Max2(Max2(p0[2], p1[2]), p2[2]))
    IN  PaintedCells(TriangleRanges(p0, p1, p2), ymin, ymax - ymin + 1)

(***************************************************************************)
(* impl::draw_frame, one triangle of the walk at a time.  The draw data    *)
(* holds one command list with one command.                                *)
(***************************************************************************)
\* cmd_list->VtxBuffer[cmd_list->IdxBuffer[pcmd->IdxOffset + k]]
VertexAt(data, k) == data.VtxBuffer[data.IdxBuffer[data.IdxOffset + k + 1] + 1]

\* What reading element k of the command gives: the vertex the index
\* buffer names there or, past the end of the index buffer, where the read
\* is undefined, any vertex.
IndexRead(data, k) ==
    IF data.IdxOffset + k + 1 \in DOMAIN data.IdxBuffer
    THEN {VertexAt(data, k)}
    ELSE ToSet(data.VtxBuffer)

\* The positions of cmd_list->IdxBuffer a turn of the walk reads.
index_reads(data, i, glyph) ==
    {data.IdxOffset + i + k : k \in 0..(IF glyph THEN 5 ELSE 2)}

glyph_char_first(as_df) == as_df[1]

\* The character of the pen: as_df[0] when as_df.size() == 1, else '?'.
glyph_char(as_df) == IF Len(as_df) = 1 THEN as_df[1] ELSE "?"

nudged_never(x, y, last) == FALSE

\* The test of the nudge, on numerators over 12: fabs(y - lastCharY) < 0.5
\* and fabs(x - lastCharX) < 0.5.
nudged(x, y, last) == ABS(y - last[2]) < 6 /\ ABS(x - last[1]) < 6

is_glyph_first_pair(uv0, uv1, uv2) == uv0 # uv1

\* The test of the walk: the triangle's texture coordinates are not all
\* equal.
is_glyph(uv0, uv1, uv2) ==
    \/ uv0[1] # uv1[1] \/ uv0[1] # uv2[1] \/ uv1[1] # uv2[1]
    \/ uv0[2] # uv1[2] \/ uv0[2] # uv2[2] \/ uv1[2] # uv2[2]

walk_next_single(i, glyph) == i + 3

\* The walk's index after a turn at i: the loop's i += 3, after the glyph
\* branch's own i += 3.
walk_next(i, glyph) == IF glyph THEN (i + 3) + 3 ELSE i + 3

\* The command is walked when its clip rectangle meets the framebuffer.
ClipVisible(data) ==
    LET clip_rect == data.ClipRect
    IN  /\ clip_rect[1] < data.DisplaySize[1]
        /\ clip_rect[2] < data.DisplaySize[2]
        /\ clip_rect[3] >= 0
        /\ clip_rect[4] >= 0

\* draw_frame up to the walk: nothing is drawn on an empty framebuffer, or
\* when the command's clip rectangle misses it, or when it has no element.
draw_frame_enter ==
    /\ draw_pc = "start"
    /\ draw_pc' = IF /\ drawData.DisplaySize[1] > 0
                     /\ drawData.DisplaySize[2] > 0
                     /\ ClipVisible(drawData)
                     /\ 0 < drawData.ElemCount
                  THEN "walk" ELSE "done"
    /\ draw_i' = 0
    /\ lastChar' = <<-120000, -120000>>
    /\ UNCHANGED <<inputVars, windowVars, feedVars, drawData, screen, walk,
                   colourVars>>

\* One turn of the walk on a triangle whose texture coordinates are all
\* equal: drawTriangle paints it with the first vertex's colour.
draw_frame_fill ==
    /\ draw_pc = "walk"
    /\ LET v0 == VertexAt(drawData, draw_i + 0)
           v1 == VertexAt(drawData, draw_i + 1)
           v2 == VertexAt(drawData, draw_i + 2)
       IN  /\ ~is_glyph(v0.uv, v1.uv, v2.uv)
           /\ \E cells \in {drawTriangle(v0.pos, v1.pos, v2.pos)} :
                /\ screen' = [c \in DisplayCells |->
                                IF c \in cells
                                THEN [ch |-> " ", fg |-> v0.col.x, bg |-> v0.col.y]
                                ELSE screen[c]]
                /\ walk' = Append(walk,
                              [i |-> draw_i, kind |-> "fill", cells |-> cells,
                               touched |->
                                   TriangleScan(v0.pos, v1.pos, v2.pos).touched,
                               reads |-> index_reads(drawData, draw_i, FALSE)])
    /\ draw_i' = walk_next(draw_i, FALSE)
    /\ draw_pc' = IF draw_i' < drawData.ElemCount THEN "walk" ELSE "done"
    /\ UNCHANGED <<inputVars, windowVars, feedVars, drawData, lastChar,
                   colourVars>>

\* One turn of the walk on a triangle whose texture coordinates are not all
\* equal: it and the next triangle are one glyph.  x and y are kept as
\* numerators over 12 (six positions in half cells).
draw_frame_glyph ==
    /\ draw_pc = "walk"
    /\ \E vv0 \in IndexRead(drawData, draw_i + 3),
          vv1 \in IndexRead(drawData, draw_i + 4),
          vv2 \in IndexRead(drawData, draw_i + 5) :
         LET v0 == VertexAt(drawData, draw_i + 0)
             v1 == VertexAt(drawData, draw_i + 1)
             v2 == VertexAt(drawData, draw_i + 2)
             x0 == v0.pos[1] + v1.pos[1] + v2.pos[1]
                      + vv0.pos[1] + vv1.pos[1] + vv2.pos[1]
             y0 == v0.pos[2] + v1.pos[2] + v2.pos[2]
                      + vv0.pos[2] + vv1.pos[2] + vv2.pos[2] + 6
             near == nudged(x0, y0, lastChar)
             x == IF near THEN lastChar[1] + 12 ELSE x0
             y == IF near THEN lastChar[2] ELSE y0
             xx == x \div 12
             yy == y \div 12
             clip_rect == drawData.ClipRect
             clipped == \/ xx < clip_rect[1] \/ xx >= clip_rect[3]
                        \/ yy < clip_rect[2] \/ yy >= clip_rect[4]
             as_df == UTF2DF(v0.chrs)
         IN  /\ is_glyph(v0.uv, v1.uv, v2.uv)
             /\ lastChar' = <<x, y>>
             \* Screen::readTile and Screen::paintTile act on display cells
             /\ screen' = [c \in DisplayCells |->
                              IF ~clipped /\ c = <<xx, yy>>
                              THEN [ch |-> glyph_char(as_df), fg |-> v0.col.x,
                                    bg |-> screen[c].bg]
                              ELSE screen[c]]
             /\ walk' = Append(walk,
                           [i |-> draw_i, kind |-> "glyph",
                            pos |-> <<x0, y0>>,
                            cells |-> IF clipped THEN {}
                                      ELSE {<<xx, yy>>} \cap DisplayCells,
                            reads |-> index_reads(drawData, draw_i, TRUE)])
    /\ draw_i' = walk_next(draw_i, TRUE)
    /\ draw_pc' = IF draw_i' < drawData.ElemCount THEN "walk" ELSE "done"
    /\ UNCHANGED <<inputVars, windowVars, feedVars, drawData,
                   colourVars>>

(***************************************************************************)
(* The draw data handed to draw_frame: one triangle, or one quad of two    *)
(* triangles over four vertices.                                           *)
(***************************************************************************)
Vertex(pos, uv, col, chrs) == [pos |-> pos, uv |-> uv, col |-> col, chrs |-> chrs]

FirstColour == [x |-> 4, y |-> 1]
OtherColour == [x |-> 2, y |-> 3]

\* Vertex coordinates of the triangles, in half cells: left of / above the
\* display, on it, and right of / below it.
TriangleXs == {-2, 0, 8, 2 * DisplayWidth + 1}
TriangleYs == {-2, 0, 8, 2 * DisplayHeight + 1}
TrianglePoints == TriangleXs \X TriangleYs

\* Clip rectangles: the display, two parts of it, and one beside it.
ClipRects ==
    {<<0, 0, DisplayWidth, DisplayHeight>>, <<0, 0, 2, 2>>, <<2, 1, 5, 4>>,
     <<DisplayWidth, 0, DisplayWidth + 2, 2>>}

\* Texture coordinates: the atlas's white pixel and a glyph's corner.
TexCoords == {<<0, 0>>, <<1, 0>>}

GlyphTexts == {<<"a">>, <<"e-acute">>, <<"a", "a">>}

TriangleData(p0, p1, p2, clip) ==
    [DisplaySize |-> <<DisplayWidth, DisplayHeight>>,
     ClipRect |-> clip, IdxOffset |-> 0, ElemCount |-> 3,
     IdxBuffer |-> <<0, 1, 2>>,
     VtxBuffer |-> <<Vertex(p0, <<0, 0>>, FirstColour, <<>>),
                     Vertex(p1, <<0, 0>>, OtherColour, <<>>),
                     Vertex(p2, <<0, 0>>, OtherColour, <<>>)>>]

\* The quad with corners (x, y) and (x + w, y + h), as the GUI library
\* emits it: four vertices, the triangles 0 1 2 and 0 2 3.
QuadData(x, y, w, h, uv, chrs, clip) ==
    [DisplaySize |-> <<DisplayWidth, DisplayHeight>>,
     ClipRect |-> clip, IdxOffset |-> 0, ElemCount |-> 6,
     IdxBuffer |-> <<0, 1, 2, 0, 2, 3>>,
     VtxBuffer |-> <<Vertex(<<x, y>>, uv[1], FirstColour, chrs),
                     Vertex(<<x + w, y>>, uv[2], OtherColour, chrs),
                     Vertex(<<x + w, y + h>>, uv[3], OtherColour, chrs),
                     Vertex(<<x, y + h>>, uv[4], OtherColour, chrs)>>]

\* The corner texture coordinates of a quad. The GUI library emits its
\* triangles in pairs, so a triangle with unequal texture coordinates is
\* never the last one of a command.
QuadTexCoords ==
    {uv \in [1..4 -> TexCoords] :
        (uv[1] = uv[2] /\ uv[2] = uv[3]) => uv[4] = uv[1]}

DrawInputs ==
    {TriangleData(p0, p1, p2, clip) :
        p0 \in TrianglePoints, p1 \in TrianglePoints, p2 \in TrianglePoints,
        clip \in ClipRects}
    \cup
    {QuadData(o[1], o[2], s[1], s[2], uv, chrs, clip) :
        o \in {0, 3, 2 * DisplayWidth} \X {0, 4},
        s \in {<<2, 2>>, <<6, 4>>},
        uv \in QuadTexCoords, chrs \in GlyphTexts, clip \in ClipRects}

\* The four vertices of a glyph's quad, one cell wide and high, at (x, y):
\* its first triangle has unequal texture coordinates.
GlyphQuad(x, y, chrs) ==
    <<Vertex(<<x, y>>, <<0, 0>>, FirstColour, chrs),
      Vertex(<<x + 2, y>>, <<1, 0>>, OtherColour, chrs),
      Vertex(<<x + 2, y + 2>>, <<1, 0>>, OtherColour, chrs),
      Vertex(<<x, y + 2>>, <<0, 0>>, OtherColour, chrs)>>

\* One command of two glyphs, the second one d away from the first.
GlyphPairData(p, d, chrs1, chrs2, clip) ==
    [DisplaySize |-> <<DisplayWidth, DisplayHeight>>,
     ClipRect |-> clip, IdxOffset |-> 0, ElemCount |-> 12,
     IdxBuffer |-> <<0, 1, 2, 0, 2, 3, 4, 5, 6, 4, 6, 7>>,
     VtxBuffer |-> GlyphQuad(p[1], p[2], chrs1)
                      \o GlyphQuad(p[1] + d[1], p[2] + d[2], chrs2)]

\* One command of count elements at offset of an index buffer over the
\* four vertices of a quad.
CommandData(offset, count, idx, uv, clip) ==
    [DisplaySize |-> <<DisplayWidth, DisplayHeight>>,
     ClipRect |-> clip, IdxOffset |-> offset, ElemCount |-> count,
     IdxBuffer |-> idx,
     VtxBuffer |-> <<Vertex(<<2, 2>>, uv[1], FirstColour, <<"a">>),
                     Vertex(<<6, 2>>, uv[2], OtherColour, <<"a">>),
                     Vertex(<<6, 6>>, uv[3], OtherColour, <<"a">>),
                     Vertex(<<2, 6>>, uv[4], OtherColour, <<"a">>)>>]

\* Draw data of text: two glyphs a fraction of a cell apart, and commands
\* of one or two triangles of either kind, alone in the index buffer or
\* beside another command's indices.
TextInputs ==
    {GlyphPairData(p, d, chrs1, chrs2, clip) :
        p \in {0, 1, 2, 7} \X {0, 1, 4},
        d \in {0, 1, 2, 3} \X {0, 1, 2},
        chrs1 \in GlyphTexts, chrs2 \in GlyphTexts,
        clip \in {<<0, 0, DisplayWidth, DisplayHeight>>, <<2, 1, 5, 4>>}}
    \cup
    {CommandData(c[1], c[2], idx, uv, clip) :
        c \in {<<0, 3>>, <<3, 3>>, <<0, 6>>},
        idx \in {<<0, 1, 2, 0, 2, 3>>, <<0, 1, 2, 0, 2, 3, 0, 1, 2>>},
        uv \in [1..4 -> TexCoords],
        clip \in {<<0, 0, DisplayWidth, DisplayHeight>>}}

NoDrawData ==
    [DisplaySize |-> <<DisplayWidth, DisplayHeight>>,
     ClipRect |-> <<0, 0, DisplayWidth, DisplayHeight>>,
     IdxOffset |-> 0, ElemCount |-> 0, IdxBuffer |-> <<>>, VtxBuffer |-> <<>>]

\* The host's screen before the frame is drawn.
HostScreen ==
    [c \in DisplayCells |-> [ch |-> ".", fg |-> 7, bg |-> (c[1] + c[2]) % 2]]

InitNoDraw ==
    /\ drawData = NoDrawData
    /\ draw_pc = "idle"
    /\ draw_i = 0
    /\ lastChar = <<-120000, -120000>>
    /\ screen = HostScreen
    /\ walk = <<>>

InitDraw ==
    /\ drawData \in DrawInputs
    /\ draw_pc = "start"
    /\ draw_i = 0
    /\ lastChar = <<-120000, -120000>>
    /\ screen = HostScreen
    /\ walk = <<>>

InitText ==
    /\ drawData \in TextInputs
    /\ draw_pc = "start"
    /\ draw_i = 0
    /\ lastChar = <<-120000, -120000>>
    /\ screen = HostScreen
    /\ walk = <<>>

InitFeed ==
    /\ should_pass_keyboard_up = FALSE
    /\ suppress_next_keyboard_passthrough = FALSE
    /\ activations = <<>>
    /\ fed_keys = {}
    /\ requests = [feed_upwards |-> FALSE, suppress |-> FALSE,
                   declared |-> {}, ended_suppressed |-> FALSE]

InitWindows ==
    /\ GImGui = NULL
    /\ ctx_Windows = <<>>
    /\ ctx_WindowsFocusOrder = <<>>
    /\ ChildWindows = [w \in WindowNames |-> <<>>]
    /\ last_context = NULL
    /\ windows = <<>>
    /\ rendered_windows = {}
    /\ render_stack = 0
    /\ suppressed_keys = <<>>
    /\ layers = <<>>
    /\ last_call = [op |-> "none"]
    /\ pass_collected = <<>>

InitInput ==
    /\ unprocessed_keys = {}
    /\ danger_key_frames = <<>>
    /\ keysDown = {}
    /\ frame_keys = {}
    /\ last_seen = [t \in DigitKeys |-> -1]

vars == <<inputVars, windowVars, feedVars, drawVars, colourVars>>

InitFrames == InitInput /\ InitWindows /\ InitFeed /\ InitNoDraw /\ InitNoColour

NextFrames == \E keys \in HostKeySets : impl_new_frame(keys)

\* The input translator driven frame by frame.
SpecInput == InitFrames /\ [][NextFrames]_vars

Init == InitInput /\ InitWindows /\ InitFeed /\ InitNoDraw /\ InitNoColour

Next ==
    \/ \E is_top \in BOOLEAN : Len(layers) < MaxDepth /\ on_render_start(is_top)
    \/ \E parent \in WindowNames \cup {NoWindow} : Begin(parent)
    \/ \E win \in WindowNames : claim_current_imgui_window(win)
    \/ \E is_top \in BOOLEAN, id \in 1..MaxDepth : on_render_end(is_top, id)

\* The render passes of the host: layers entering, opening and claiming
\* windows, and exiting in stack order.
Spec == Init /\ [][Next]_vars

InitDrawFrame ==
    InitInput /\ InitWindows /\ InitFeed /\ InitDraw /\ InitNoColour

NextDraw ==
    \/ draw_frame_enter
    \/ draw_frame_fill
    \/ draw_frame_glyph

InitColours ==
    InitInput /\ InitWindows /\ InitFeed /\ InitNoDraw /\ InitColour

NextColours == call_named_colours

\* named_colours called with every pair of names and both bold flags.
SpecColours == InitColours /\ [][NextColours]_vars

\* ImGui::Begin of the context's first window.
BeginFirst == ctx_Windows = <<>> /\ Begin(NoWindow)

NextLayers ==
    \/ \E is_top \in BOOLEAN : Len(layers) < MaxDepth /\ on_render_start(is_top)
    \/ BeginFirst
    \/ \E win \in WindowNames : claim_current_imgui_window(win)
    \/ \E key \in DeclaredKeys : declare_suppressed_key(key)
    \/ \E is_top \in BOOLEAN, id \in 1..MaxDepth : on_render_end(is_top, id)

\* The render passes of the host over one window, the layers claiming it
\* and declaring suppressed keys.
SpecLayers == Init /\ [][NextLayers]_vars

\* ImGui::Begin of one more window, inside the window opened before it:
\* the context's windows form one chain of parent and child.
BeginNested ==
    IF ctx_Windows = <<>> THEN Begin(NoWindow)
    ELSE Begin(CreationOrder[Len(ctx_Windows)])

NextFamily ==
    \/ \E is_top \in BOOLEAN : Len(layers) < MaxNesting /\ on_render_start(is_top)
    \/ BeginNested
    \/ \E win \in WindowNames : claim_current_imgui_window(win)
    \/ \E is_top \in BOOLEAN, id \in 1..MaxNesting : on_render_end(is_top, id)

\* The render passes of the host over a chain of nested windows, with a
\* layer inside a layer inside the top one.
SpecFamily == Init /\ [][NextFamily]_vars

\* The key sets the host hands to on_feed_end.
PropagatedKeySets == FeedKeySets \cup {{"SELECT", "STRING_A052"}}

NextFeed ==
    \/ \E is_top \in BOOLEAN, keys \in {NoKeys, {"SELECT"}} :
          on_feed_start(is_top, keys)
    \/ feed_upwards
    \/ suppress_next_keyboard_feed_upwards
    \/ suppress_next_mouse_feed_upwards
    \/ \E keys \in PropagatedKeySets \cup {NoKeys} : on_feed_end(keys)
    \/ \E is_top \in BOOLEAN : Len(layers) < MaxDepth /\ on_render_start(is_top)
    \/ \E key \in DeclaredKeys : declare_suppressed_key(key)
    \/ \E is_top \in BOOLEAN, id \in 1..MaxDepth : on_render_end(is_top, id)
    \/ on_dismiss_final_imgui_aware_viewscreen

\* The host feeding keys to its layers, the layers asking for the keys to
\* go up or not, and render passes in which layers declare suppressed keys.
SpecFeed == Init /\ [][NextFeed]_vars

\* The context the host has made current before the session is used.
HostContexts == {NULL, "host"}

InitSession ==
    /\ InitInput /\ InitFeed /\ InitNoDraw /\ InitNoColour
    /\ GImGui \in HostContexts
    /\ ctx_Windows = <<>>
    /\ ctx_WindowsFocusOrder = <<>>
    /\ ChildWindows = [w \in WindowNames |-> <<>>]
    /\ last_context = NULL
    /\ windows = <<>>
    /\ rendered_windows = {}
    /\ render_stack = 0
    /\ suppressed_keys = <<>>
    /\ layers = <<>>
    /\ last_call = [op |-> "none"]
    /\ pass_collected = <<>>

NextSession ==
    \/ \E is_top \in BOOLEAN, keys \in FeedKeySets \cup {NoKeys} :
          on_feed_start(is_top, keys)
    \/ \E keys \in FeedKeySets \cup {NoKeys} : on_feed_end(keys)
    \/ on_render_start(TRUE)
    \/ \E id \in 1..MaxDepth : on_render_end(TRUE, id)

\* The host feeding keys to its layers and rendering top-level passes.
SpecSession == InitSession /\ [][NextSession]_vars

InitDrawText ==
    InitInput /\ InitWindows /\ InitFeed /\ InitText /\ InitNoColour

\* draw_frame interpreting one draw data of text.
SpecText == InitDrawText /\ [][NextDraw]_vars

\* draw_frame interpreting one draw data of the GUI library.
SpecDraw == InitDrawFrame /\ [][NextDraw]_vars

(***************************************************************************)
(* Claims about the input translator (checked under SpecInput).            *)
(***************************************************************************)
\* The CURSOR_* event the host pairs with a direction character.
PairedCursor(c) ==
    CASE c = "4" -> "CURSOR_LEFT"
      [] c = "6" -> "CURSOR_RIGHT"
      [] c = "8" -> "CURSOR_UP"
      [] c = "2" -> "CURSOR_DOWN"

\* C1: for each of the four directions, a frame whose key set holds both
\* the digit key and its paired CURSOR_* event is translated to a set that
\* holds the digit key and not the CURSOR_* event.
C1_DigitKillsCursor ==
    \A c \in DirectionChars :
        (charToKey(c) \in frame_keys /\ PairedCursor(c) \in frame_keys)
            => (charToKey(c) \in keysDown /\ PairedCursor(c) \notin keysDown)

C1_Witness ==
    /\ frame_keys = {charToKey("4"), "CURSOR_LEFT"}
    /\ keysDown = {charToKey("4")}

\* C2 as stated: after impl::new_frame has processed a frame whose key set
\* holds a directional digit key, that direction's danger timer is 0.
C2_TimerZeroAfterFrame ==
    \A t \in DigitKeys :
        t \in frame_keys
            => (t \in DOMAIN danger_key_frames /\ danger_key_frames[t] = 0)

\* C2 amended: after impl::new_frame has processed a frame whose key set
\* holds a directional digit key, that direction's danger timer is 1
\* (cleanup_keys restarts it at 0 and new_frame then ages it once).
C2_TimerOneAfterFrame ==
    \A t \in DigitKeys :
        t \in frame_keys
            => (t \in DOMAIN danger_key_frames /\ danger_key_frames[t] = 1)

C2_Witness ==
    /\ charToKey("4") \in frame_keys
    /\ charToKey("4") \in DOMAIN danger_key_frames
    /\ danger_key_frames[charToKey("4")] = 1

\* C3: when a direction's digit key was in a frame's key set and in none
\* of the k frames after it, 1 <= k <= 9, a CURSOR_* event of that
\* direction in the k-th frame is removed from the translated set.
C3_SuppressedFrames1To9 ==
    \A c \in DirectionChars :
        (last_seen[charToKey(c)] \in 1..9 /\ PairedCursor(c) \in frame_keys)
            => PairedCursor(c) \notin keysDown

C3_Witness ==
    /\ last_seen[charToKey("4")] = 9
    /\ frame_keys = {"CURSOR_LEFT"}
    /\ keysDown = {}

\* C4: when a direction's digit key was in a frame's key set and in none
\* of the k frames after it, k >= 11, a CURSOR_* event of that direction
\* in the k-th frame survives translation.
C4_PassesFromFrame11 ==
    \A c \in DirectionChars :
        (last_seen[charToKey(c)] >= 11 /\ PairedCursor(c) \in frame_keys)
            => PairedCursor(c) \in keysDown

C4_Witness ==
    /\ last_seen[charToKey("4")] = 11
    /\ frame_keys = {"CURSOR_LEFT"}
    /\ keysDown = {"CURSOR_LEFT"}

\* C15: after each new_frame the keys marked down are exactly the frame's
\* keys that survive the translation: none that is not in the frame's key
\* set, every key of the set but CURSOR_* events, and a CURSOR_* event of
\* the set unless its digit key was in the set of this frame or of one of
\* the 10 frames before it.
C15_KeysDownAreSurvivors ==
    /\ keysDown \subseteq frame_keys
    /\ (frame_keys \ keysDown) \subseteq CursorKeys
    /\ keysDown =
          frame_keys \ {PairedCursor(c) : c \in
                           {d \in DirectionChars :
                               last_seen[charToKey(d)] \in 0..10}}

C15_Witness ==
    /\ frame_keys = {"SELECT", "CURSOR_UP"}
    /\ keysDown = {"SELECT"}
    /\ last_seen[charToKey("8")] = 3
    /\ last_seen[charToKey("4")] = 2

(***************************************************************************)
(* Claims about the window ordering reconciler (checked under Spec).       *)
(***************************************************************************)
\* before, spliced with the sublist order, is after: the windows of before
\* that order does not hold come first, in the relative order they had in
\* before, and order follows them.
IsSplice(before, order, after) ==
    LET n == Len(before) - Len(order)
    IN  /\ Len(after) = Len(before)
        /\ ToSet(after) = ToSet(before)
        /\ \A i \in 1..n : after[i] \notin ToSet(order)
        /\ \A i, j \in 1..n :
              i < j => Pos(before, after[i]) < Pos(before, after[j])
        /\ \A k \in 1..Len(order) : after[n + k] = order[k]

\* C5: splicing a sorted claimed subset into a global window list yields
\* the untouched windows first, in their prior relative order, followed by
\* the claimed windows in their sorted order, for the display list and for
\* the focus list; global [A,B,C,D] with the subset sorted to [D,B] gives
\* [A,C,D,B].
C5_SpliceKeepsUntouchedOrder ==
    /\ last_call.op = "on_render_end" =>
          /\ IsSplice(last_call.Windows, last_call.display_order, ctx_Windows)
          /\ IsSplice(last_call.WindowsFocusOrder, last_call.focus_order,
                      ctx_WindowsFocusOrder)
    /\ imgui_rearrange(<<"A", "B", "C", "D">>, <<"D", "B">>)
          = <<"A", "C", "D", "B">>

C5_Witness ==
    /\ last_call.op = "on_render_end"
    /\ last_call.Windows = <<"A", "B", "C">>
    /\ last_call.display_order = <<"C", "A">>
    /\ ctx_Windows = <<"B", "C", "A">>
    /\ last_call.focus_order = <<"A", "C">>
    /\ ctx_WindowsFocusOrder = <<"B", "A", "C">>

\* C6: every window collected by a later on_render_end call of a pass sits
\* nearer the front of the global display order (later in ctx->Windows)
\* than every window collected by an earlier call of the same pass; this
\* holds after each exit, and so after the last one.
C6_LaterLayersInFront ==
    \A i, j \in DOMAIN pass_collected :
        i < j => \A a \in pass_collected[i], b \in pass_collected[j] :
                    Pos(ctx_Windows, a) < Pos(ctx_Windows, b)

C6_Witness ==
    /\ layers = <<>>
    /\ Len(pass_collected) = 2
    /\ pass_collected[1] = {"C"}
    /\ pass_collected[2] = {"A", "B"}
    /\ ctx_Windows[1] = "C"

\* C7: the layer depth is never negative; on_render_start with
\* is_top = true leaves it at 0 + 1, and every other step changes it by at
\* most one (on_render_start adds one, on_render_end takes one away).
C7_DepthNeverNegativeResetOnlyAtTop ==
    [][/\ render_stack >= 0
       /\ render_stack' >= 0
       /\ IF last_call'.op = "on_render_start" /\ last_call'.is_top
          THEN render_stack' = 1
          ELSE /\ render_stack' - render_stack \in {-1, 0, 1}
               /\ render_stack' = 0 =>
                     (render_stack = 0 \/ last_call'.op = "on_render_end")]_vars

C7_Witness ==
    /\ render_stack = 0
    /\ layers = <<>>
    /\ last_call.op = "on_render_end"
    /\ Len(pass_collected) = 2

\* C8: within a pass the rendered-window set only grows (only
\* on_render_start with is_top = true clears it), and the sets of windows
\* the on_render_end calls of a pass collect are pairwise disjoint.
C8_RenderedGrowsCollectedOnce ==
    [][/\ \/ rendered_windows \subseteq rendered_windows'
          \/ (last_call'.op = "on_render_start" /\ last_call'.is_top)
       /\ \A i, j \in DOMAIN pass_collected' :
             i < j => pass_collected'[i] \cap pass_collected'[j] = {}]_vars

C8_Witness ==
    /\ Len(pass_collected) = 2
    /\ ChildWindows["A"] = <<"B">>
    /\ "B" \in ToSet(WindowsAt(windows, 1))
    /\ "B" \in ToSet(WindowsAt(windows, 2))
    /\ pass_collected[1] = {"B"}
    /\ "A" \in pass_collected[2]



\* C17: on_render_start with is_top = true leaves the claimed lists, the
\* rendered set and the suppressed-key sets empty, the session's context
\* current with the context current before it saved, the pending keys
\* handed to a frame, and the depth and its token at 1; with is_top = false
\* it leaves all of those as they were and its token and the depth are the
\* depth before plus 1. The tokens of the open layers are distinct.
C17_RenderStartBookkeeping ==
    [][Len(layers') = Len(layers) + 1 =>
          /\ last_call'.op = "on_render_start"
          /\ IF last_call'.is_top
             THEN /\ windows' = <<>>
                  /\ rendered_windows' = {}
                  /\ suppressed_keys' = <<>>
                  /\ GImGui' = ctx
                  /\ last_context' = GImGui
                  /\ frame_keys' = unprocessed_keys
                  /\ unprocessed_keys' = {}
                  /\ render_stack' = 1
                  /\ last_call'.token = 1
             ELSE /\ UNCHANGED <<windows, rendered_windows, suppressed_keys,
                                 GImGui, last_context, frame_keys,
                                 unprocessed_keys, keysDown>>
                  /\ render_stack' = render_stack + 1
                  /\ last_call'.token = render_stack + 1
          /\ layers'[Len(layers')] = <<last_call'.is_top, last_call'.token>>
          /\ \A i, j \in DOMAIN layers' :
                i < j => layers'[i][2] # layers'[j][2]]_vars

C17_Witness ==
    /\ last_call.op = "on_render_start"
    /\ ~last_call.is_top
    /\ last_call.token = 2
    /\ layers = <<<<TRUE, 1>>, <<FALSE, 2>>>>
    /\ windows = <<<<"A">>>>
    /\ suppressed_keys = <<{"SELECT"}>>


\* C18: a claim made while the layer with token t is the innermost open
\* layer appends the window's name to the claimed list of depth t and
\* changes no other list, also after a nested layer has entered and
\* exited; the token given to on_render_end is the depth at the call.
C18_ClaimsGoToInnermostLayer ==
    [][/\ last_call'.op = "claim_current_imgui_window" =>
             LET t == layers[Len(layers)][2]
             IN  /\ \E win \in WindowNames :
                        WindowsAt(windows', t) = Append(WindowsAt(windows, t), win)
                 /\ \A d \in 1..(MaxDepth + 1) :
                        d # t => WindowsAt(windows', d) = WindowsAt(windows, d)
       /\ last_call'.op = "on_render_end" => last_call'.id = render_stack]_vars

C18_Witness ==
    /\ last_call.op = "claim_current_imgui_window"
    /\ layers = <<<<TRUE, 1>>>>
    /\ Len(pass_collected) = 1
    /\ render_stack = 1
    /\ windows = <<<<"A", "B">>, <<>>>>


\* C19: the roots on_render_end takes are, with is_top = false, exactly the
\* context's windows named in the claimed list of the token's depth and not
\* in the rendered set and, with is_top = true, exactly the context's
\* windows not in the rendered set, claimed or not; after the call with
\* is_top = true every window of the context is in the rendered set.
C19_RootsOfRenderEnd ==
    last_call.op = "on_render_end" =>
        /\ last_call.my_windows = WindowsAt(windows, last_call.id)
        /\ ToSet(last_call.roots) =
              IF last_call.is_top
              THEN ToSet(last_call.Windows) \ last_call.rendered_windows
              ELSE (ToSet(last_call.Windows) \cap ToSet(last_call.my_windows))
                      \ last_call.rendered_windows
        /\ last_call.is_top => ToSet(ctx_Windows) \subseteq rendered_windows

C19_Witness ==
    /\ last_call.op = "on_render_end"
    /\ last_call.is_top
    /\ last_call.rendered_windows = {"A"}
    /\ last_call.my_windows = <<>>
    /\ last_call.roots = <<"B">>
    /\ rendered_windows = {"A", "B"}

\* C21: only the display-order subset goes through the child-aware sort:
\* after on_render_end the collected windows are the last windows of the
\* global focus list (its front), in the relative order they had in the
\* global focus list before the call, whatever order the sort gave the
\* display subset.
C21_FocusSubsetKeepsOrder ==
    last_call.op = "on_render_end" =>
        LET collected == ToSet(last_call.unsorted_windows)
            after == ctx_WindowsFocusOrder
            n == Len(after) - Cardinality(collected)
        IN  /\ \A k \in DOMAIN after : (k > n) <=> (after[k] \in collected)
            /\ \A i, j \in DOMAIN after :
                  (i < j /\ after[i] \in collected /\ after[j] \in collected)
                      => Pos(last_call.WindowsFocusOrder, after[i])
                            < Pos(last_call.WindowsFocusOrder, after[j])

\* The sort reversed the display subset of B and C; the focus list keeps
\* B before C.
C21_Witness ==
    /\ last_call.op = "on_render_end"
    /\ ToSet(last_call.unsorted_windows) = {"B", "C"}
    /\ last_call.WindowsFocusOrder = <<"A", "B", "C">>
    /\ last_call.display_order = <<"C", "B">>
    /\ ctx_Windows = <<"A", "C", "B">>
    /\ ctx_WindowsFocusOrder = <<"A", "B", "C">>

\* after holds every window as often as before does.
IsPermutation(before, after) ==
    /\ Len(after) = Len(before)
    /\ \A w \in ToSet(before) \cup ToSet(after) :
          Cardinality({k \in DOMAIN after : after[k] = w})
             = Cardinality({k \in DOMAIN before : before[k] = w})

\* C27: on_render_start, claim_current_imgui_window and on_render_end
\* leave the global display list and the global focus list a permutation
\* of what they were, the library's sort returning a permutation of its
\* input: no window is dropped or duplicated, also when a window is claimed
\* itself and reached as a child of another claimed window.
C27_ListsArePermuted ==
    [][last_call'.op \in {"on_render_start", "claim_current_imgui_window",
                          "on_render_end"}
         => /\ IsPermutation(ctx_Windows, ctx_Windows')
            /\ IsPermutation(ctx_WindowsFocusOrder, ctx_WindowsFocusOrder')]_vars

\* A and its child B were both claimed: B was collected twice, and each
\* list still holds it once.
C27_Witness ==
    /\ last_call.op = "on_render_end"
    /\ ~last_call.is_top
    /\ last_call.my_windows = <<"A", "B">>
    /\ last_call.ChildWindows["A"] = <<"B">>
    /\ last_call.unsorted_windows = <<"A", "B", "B">>
    /\ last_call.Windows = <<"A", "B", "C">>
    /\ ctx_Windows = <<"C", "B", "A">>
    /\ ctx_WindowsFocusOrder = <<"C", "A", "B">>

\* The positions of call in a sequence of calls.
CallsOf(calls, call) == {k \in DOMAIN calls : calls[k] = call}

RECURSIVE DescendantsWithin(_, _, _)
DescendantsWithin(wins, children, n) ==
    IF n = 0 THEN {}
    ELSE LET kids == UNION {ToSet(children[w]) : w \in wins}
         IN  kids \cup DescendantsWithin(kids, children, n - 1)

Descendants(wins, children) ==
    DescendantsWithin(wins, children, Cardinality(WindowNames))

\* C20: the windows on_render_end collects contain every descendant of each
\* of its roots that was not in the rendered set before the call, whether
\* or not the descendant was claimed and whether or not a window between
\* it and the root was already rendered; after the call every collected
\* window is in the rendered set.
C20_DescendantsCollected ==
    last_call.op = "on_render_end" =>
        /\ Descendants(ToSet(last_call.roots), last_call.ChildWindows)
                \ last_call.rendered_windows
              \subseteq ToSet(last_call.unsorted_windows)
        /\ ToSet(last_call.unsorted_windows) \subseteq rendered_windows

\* A layer inside the top one has claimed only A; B, inside A, was rendered
\* by a deeper layer; C, inside B, was claimed by nobody.
C20_Witness ==
    /\ last_call.op = "on_render_end"
    /\ ~last_call.is_top
    /\ last_call.my_windows = <<"A">>
    /\ last_call.roots = <<"A">>
    /\ last_call.rendered_windows = {"B"}
    /\ last_call.ChildWindows["A"] = <<"B">>
    /\ last_call.ChildWindows["B"] = <<"C">>
    /\ ToSet(last_call.unsorted_windows) = {"A", "C"}
    /\ rendered_windows = {"A", "B", "C"}

(***************************************************************************)
(* Claims about the draw-command interpreter                               *)
(***************************************************************************)
InClip(c, clip_rect) ==
    /\ c[1] >= clip_rect[1] /\ c[1] < clip_rect[3]
    /\ c[2] >= clip_rect[2] /\ c[2] < clip_rect[4]

Logged(i, kind) == \E k \in DOMAIN walk : walk[k].i = i /\ walk[k].kind = kind

\* The vertices at elements i .. i + n - 1 all have one texture coordinate.
SharesOneUV(i, n) ==
    \A a, b \in 0..(n - 1) :
        VertexAt(drawData, i + a).uv = VertexAt(drawData, i + b).uv

\* C9: a triangle drawn through the fill path is clipped to the command's
\* clip rectangle: every cell it writes lies inside the clip rectangle, so
\* a triangle wholly outside it writes no cell.
C9_FillClippedToClipRect ==
    \A k \in DOMAIN walk :
        walk[k].kind = "fill" =>
            \A c \in walk[k].cells : InClip(c, drawData.ClipRect)

\* C9, the case at hand: a fill triangle has written cells of the display
\* outside the command's clip rectangle.
C9_FillOutsideClipRect ==
    \E k \in DOMAIN walk :
        /\ walk[k].kind = "fill"
        /\ \E c \in walk[k].cells : ~InClip(c, drawData.ClipRect)

\* C10 as stated: once a command of two triangles is walked, the two are
\* one glyph and never reach the fill rasterizer when their six vertices
\* share one texture coordinate, and both go through the fill path when
\* they do not.
C10_SharedUVIsGlyph ==
    (draw_pc = "done" /\ walk # <<>> /\ drawData.ElemCount = 6) =>
        /\ SharesOneUV(0, 6) =>
              Logged(0, "glyph") /\ ~Logged(0, "fill") /\ ~Logged(3, "fill")
        /\ ~SharesOneUV(0, 6) => Logged(0, "fill") /\ Logged(3, "fill")

\* C10: once a command of two triangles is walked, the two are one glyph
\* and never reach the fill rasterizer when the first triangle's three
\* vertices do not share one texture coordinate, and both go through the
\* fill path when the six vertices share one texture coordinate.
C10_UnequalUVIsGlyph ==
    (draw_pc = "done" /\ walk # <<>> /\ drawData.ElemCount = 6) =>
        /\ ~SharesOneUV(0, 3) =>
              /\ Logged(0, "glyph")
              /\ \A k \in DOMAIN walk : walk[k].kind # "fill"
        /\ SharesOneUV(0, 6) =>
              /\ Logged(0, "fill") /\ Logged(3, "fill")
              /\ \A k \in DOMAIN walk : walk[k].kind # "glyph"

C10_Witness ==
    /\ draw_pc = "done"
    /\ drawData.ElemCount = 6
    /\ ~SharesOneUV(0, 3)
    /\ SharesOneUV(3, 3)
    /\ Len(walk) = 1
    /\ walk[1].i = 0 /\ walk[1].kind = "glyph" /\ walk[1].cells = {<<2, 3>>}
    /\ screen[<<2, 3>>].ch = "a"


\* The positions of the triangle walked at element i, in argument order.
TrianglePositions(i) ==
    <<VertexAt(drawData, i + 0).pos, VertexAt(drawData, i + 1).pos,
      VertexAt(drawData, i + 2).pos>>

\* The triangle (0,0), (4,0), (0,4), in half cells, and its rotations.
RightTriangleRotations ==
    {<<<<0, 0>>, <<8, 0>>, <<0, 8>>>>,
     <<<<8, 0>>, <<0, 8>>, <<0, 0>>>>,
     <<<<0, 8>>, <<0, 0>>, <<8, 0>>>>}

\* C11: the triangle (0,0), (4,0), (0,4), given to the fill rasterizer in
\* any rotation of its vertices, paints exactly the 15 cells with x >= 0,
\* y >= 0 and x + y <= 4.
C11_RightTriangleFifteenCells ==
    \A k \in DOMAIN walk :
        (walk[k].kind = "fill"
            /\ TrianglePositions(walk[k].i) \in RightTriangleRotations) =>
            /\ walk[k].cells =
                  {c \in (0..4) \X (0..4) : c[1] + c[2] <= 4}
            /\ Cardinality(walk[k].cells) = 15

C11_Witness ==
    /\ draw_pc = "done"
    /\ Len(walk) = 1
    /\ walk[1].kind = "fill"
    /\ TrianglePositions(0) = <<<<8, 0>>, <<0, 8>>, <<0, 0>>>>
    /\ Cardinality(walk[1].cells) = 15
    /\ \A c \in walk[1].cells : screen[c].ch = " "
    /\ screen[<<3, 2>>].ch = "."



\* C14: in the walk, a triangle whose three texture coordinates are not all
\* equal is a glyph and takes 6 elements, a triangle whose three texture
\* coordinates are all equal goes to the fill rasterizer, which paints its
\* cells with the first vertex's colour, and takes 3 elements.
C14_WalkClassifiesAndAdvances ==
    \A k \in DOMAIN walk :
        LET e == walk[k]
            next == IF k < Len(walk) THEN walk[k + 1].i ELSE draw_i
            v0 == VertexAt(drawData, e.i)
        IN  /\ e.kind = "glyph" <=> ~SharesOneUV(e.i, 3)
            /\ e.kind = "fill" <=> SharesOneUV(e.i, 3)
            /\ e.kind = "glyph" => next = e.i + 6
            /\ e.kind = "fill" => next = e.i + 3
            /\ e.kind = "fill" => e.cells = drawTriangle(v0.pos,
                                      VertexAt(drawData, e.i + 1).pos,
                                      VertexAt(drawData, e.i + 2).pos)
            /\ (e.kind = "fill" /\ k = Len(walk)) =>
                  \A c \in e.cells :
                      screen[c] = [ch |-> " ", fg |-> v0.col.x, bg |-> v0.col.y]

C14_Witness ==
    /\ draw_pc = "done"
    /\ draw_i = 6
    /\ Len(walk) = 2
    /\ walk[1].kind = "fill" /\ walk[1].i = 0
    /\ walk[2].kind = "fill" /\ walk[2].i = 3
    /\ walk[2].cells # {}
    /\ \A c \in walk[2].cells : screen[c].fg = FirstColour.x

\* C26: drawTriangle writes only cells of the display, for every triangle,
\* also one with negative or oversized coordinates; in each row the cells
\* written are the part on the display of one inclusive range of columns;
\* and the edge walk indexes the per-row buffer only at the rows of the
\* triangle's vertical extent.
C26_FillStaysOnDisplay ==
    \A k \in DOMAIN walk :
        walk[k].kind = "fill" =>
            LET e == walk[k]
                p == TrianglePositions(e.i)
                ymin == Floor(Min2(Min2(p[1][2], p[2][2]), p[3][2]))
                ymax == Floor(Max2(Max2(p[1][2], p[2][2]), p[3][2]))
                columns(y) == {c[1] : c \in {d \in e.cells : d[2] = y}}
            IN  /\ e.cells \subseteq DisplayCells
                /\ \A c \in e.cells : c[2] \in ymin..ymax
                /\ \A y \in 0..(DisplayHeight - 1) :
                      \A a, b \in columns(y) :
                          \A x \in a..b : x \in columns(y)
                /\ e.touched \subseteq 0..(2 * (ymax - ymin + 1) - 1)

\* A triangle from left of and above the display to right of and below it
\* has painted the display's first and last columns.
C26_Witness ==
    /\ Len(walk) = 1
    /\ walk[1].kind = "fill"
    /\ TrianglePositions(0)[1] = <<-2, -2>>
    /\ TrianglePositions(0)[2] = <<2 * DisplayWidth + 1, 0>>
    /\ <<0, 0>> \in walk[1].cells
    /\ <<DisplayWidth - 1, 0>> \in walk[1].cells
    /\ walk[1].touched # {}

\* The step is a turn of the walk on a glyph.
GlyphStep ==
    /\ Len(walk') = Len(walk) + 1
    /\ walk'[Len(walk')].kind = "glyph"

\* The cell of a position kept as numerators over 12.
CellOf(position) == <<position[1] \div 12, position[2] \div 12>>

\* C24: a glyph whose target cell is inside the clip rectangle writes that
\* cell and no other: the converted character when the conversion yields
\* one unit and '?' otherwise, the first vertex's foreground, and the
\* background the cell had before; a glyph whose target cell is outside the
\* clip rectangle writes nothing.
C24_GlyphWritesOneCell ==
    [][GlyphStep =>
         LET e == walk'[Len(walk')]
             v0 == VertexAt(drawData, e.i)
             target == CellOf(lastChar')
             as_df == UTF2DF(v0.chrs)
         IN  IF InClip(target, drawData.ClipRect)
             THEN /\ e.cells = {target}
                  /\ screen'[target] =
                        [ch |-> IF Len(as_df) = 1 THEN as_df[1] ELSE "?",
                         fg |-> v0.col.x, bg |-> screen[target].bg]
                  /\ \A c \in DisplayCells \ {target} : screen'[c] = screen[c]
             ELSE e.cells = {} /\ screen' = screen]_vars

\* The second glyph of a command, whose text converts to two units, was
\* painted as '?' over the host's background.
C24_Witness ==
    /\ Len(walk) = 2
    /\ walk[2].kind = "glyph"
    /\ VertexAt(drawData, walk[2].i).chrs = <<"a", "a">>
    /\ \E c \in DisplayCells :
          /\ walk[2].cells = {c}
          /\ walk[1].cells # {c}
          /\ HostScreen[c].bg = 1
          /\ screen[c] = [ch |-> "?", fg |-> FirstColour.x, bg |-> 1]

\* The step is a turn of the walk on a glyph that follows another glyph of
\* the command.
NextGlyphStep ==
    /\ GlyphStep
    /\ \E k \in DOMAIN walk : walk[k].kind = "glyph"

\* C25 as stated: a glyph whose computed cell is within one unit, on both
\* axes, of the preceding glyph's cell is placed one column to the right of
\* the preceding glyph on its row, and no glyph targets the cell of the
\* glyph before it.
C25_NudgedWithinOneCell ==
    [][NextGlyphStep =>
         LET computed == CellOf(walk'[Len(walk')].pos)
             before == CellOf(lastChar)
             placed == CellOf(lastChar')
         IN  /\ (ABS(computed[1] - before[1]) <= 1
                   /\ ABS(computed[2] - before[2]) <= 1)
                  => placed = <<before[1] + 1, before[2]>>
             /\ placed # before]_vars

\* C25: a glyph whose computed position is less than half a cell away, on
\* both axes, from the preceding glyph's position is placed one column to
\* the right of the preceding glyph on its row, and so does not target the
\* preceding glyph's cell.
C25_NudgedWithinHalfCell ==
    [][NextGlyphStep =>
         LET computed == walk'[Len(walk')].pos
             before == CellOf(lastChar)
             placed == CellOf(lastChar')
         IN  (ABS(computed[1] - lastChar[1]) < 6
                /\ ABS(computed[2] - lastChar[2]) < 6)
               => /\ lastChar' = <<lastChar[1] + 12, lastChar[2]>>
                  /\ placed = <<before[1] + 1, before[2]>>
                  /\ placed # before]_vars

\* The second glyph of a command was computed at the first one's position
\* and painted in the next column.
C25_Witness ==
    /\ Len(walk) = 2
    /\ walk[1].kind = "glyph" /\ walk[2].kind = "glyph"
    /\ walk[2].pos = walk[1].pos
    /\ walk[1].cells = {<<1, 1>>}
    /\ walk[2].cells = {<<2, 1>>}
    /\ lastChar = <<walk[1].pos[1] + 12, walk[1].pos[2]>>

\* C28: every position of the index buffer the walk reads lies in the
\* command's range of elements, IdxOffset .. IdxOffset + ElemCount - 1,
\* whenever the element count is a multiple of 3, also when the command's
\* last triangle has unequal texture coordinates.
C28_ReadsWithinCommand ==
    drawData.ElemCount % 3 = 0 =>
        \A k \in DOMAIN walk :
            walk[k].reads \subseteq
                drawData.IdxOffset..(drawData.IdxOffset + drawData.ElemCount - 1)

\* C28, the case at hand: the last triangle of a command of three elements
\* has unequal texture coordinates, and the walk has read the three
\* positions after the command's range.
C28_ReadsPastCommand ==
    /\ drawData.ElemCount = 3
    /\ drawData.IdxOffset = 0
    /\ Len(walk) = 1
    /\ walk[1].kind = "glyph"
    /\ walk[1].reads = 0..5

(***************************************************************************)
(* Claims about the session                                                *)
(***************************************************************************)
\* The latest entry point called ended with deactivate().
JustDeactivated ==
    /\ last_call.op \in {"on_feed_end", "on_render_end"}
    /\ last_call.deactivated

\* C12 as stated: after every deactivate() the current context is the one
\* that was current before the matching activate(), whatever the host's
\* sequence of passes and feed calls, nested feed calls included.
C12_DeactivateRestoresAlways ==
    JustDeactivated => GImGui = last_call.activation.before

\* C12: after a deactivate() whose matching activate() was followed by no
\* other activate() before it, the current context is the one that was
\* current before that activate().
C12_DeactivateRestoresUnnested ==
    (JustDeactivated /\ ~last_call.activation.nested) =>
        GImGui = last_call.activation.before

C12_Witness ==
    /\ last_call.op = "on_feed_end"
    /\ ~last_call.activation.nested
    /\ last_call.activation.before = "host"
    /\ activations = <<>>
    /\ GImGui = "host"


(***************************************************************************)
(* Claims about colours                                                    *)
(***************************************************************************)
\* C13: named_colours(fg, bg, bold) is the value with components
\* (index of fg, index of bg, bold as 0 or 1) and opacity 1, for every pair
\* of names of the table; named_colours("WHITE", "BLACK", false) is
\* (15, 0, 0) with opacity 1.
C13_NamedColoursComponents ==
    colour_result # <<>> =>
        /\ colour_result[1] =
              [x |-> name_to_colour_index(colour_args[1]),
               y |-> name_to_colour_index(colour_args[2]),
               z |-> IF colour_args[3] THEN 1 ELSE 0,
               w |-> 1]
        /\ colour_args = <<"WHITE", "BLACK", FALSE>> =>
              colour_result[1] = [x |-> 15, y |-> 0, z |-> 0, w |-> 1]

C13_Witness ==
    /\ colour_args = <<"WHITE", "BLACK", FALSE>>
    /\ colour_result = <<[x |-> 15, y |-> 0, z |-> 0, w |-> 1]>>


\* C16: the keys pending are the keys passed to feed() since the latest
\* new_frame(); a new_frame() hands exactly those keys, of however many
\* feed() calls, to the input translator and leaves no key pending.
C16_FedKeysReachNextFrame ==
    /\ unprocessed_keys = fed_keys
    /\ (last_call.op = "on_render_start" /\ last_call.is_top) =>
          /\ frame_keys = last_call.fed
          /\ unprocessed_keys = {}

C16_Witness ==
    /\ last_call.op = "on_render_start"
    /\ last_call.fed = {"SELECT", "STRING_A052"}
    /\ frame_keys = {"SELECT", "STRING_A052"}
    /\ keysDown = {"SELECT", "STRING_A052"}
    /\ unprocessed_keys = {}

(***************************************************************************)
(* Claims about the keyboard passthrough (checked under SpecFeed).         *)
(***************************************************************************)
\* C23: on_feed_end returns true exactly when feed_upwards was requested
\* since the previous on_feed_end, no suppress was requested since then,
\* the key set is not null and none of its keys was declared suppressed, by
\* a layer of any depth, since the latest top-level on_render_start or
\* final dismiss; on_feed_end leaves both flags false.
C23_FeedEndReturn ==
    last_call.op = "on_feed_end" =>
        /\ last_call.should_feed <=>
              /\ last_call.requests.feed_upwards
              /\ ~last_call.requests.suppress
              /\ last_call.keys # NoKeys
              /\ last_call.keys \cap last_call.requests.declared = {}
        /\ ~should_pass_keyboard_up
        /\ ~suppress_next_keyboard_passthrough

\* feed_upwards was requested and nothing suppressed, but the layer inside
\* the top one had declared one of the two keys.
C23_Witness ==
    /\ last_call.op = "on_feed_end"
    /\ last_call.requests.feed_upwards
    /\ ~last_call.requests.suppress
    /\ last_call.keys = {"SELECT", "STRING_A052"}
    /\ suppressed_keys = [d \in {2} |-> {"SELECT"}]
    /\ ~last_call.should_feed

\* C29: suppress_next_mouse_feed_upwards and
\* suppress_next_keyboard_feed_upwards set the same flag,
\* suppress_next_keyboard_passthrough; the on_feed_end that follows either
\* call returns false, feed_upwards requested or not, and the on_feed_end
\* after that one is not suppressed by it.
C29_SuppressLastsOneFeedEnd ==
    /\ last_call.op \in {"suppress_next_keyboard_feed_upwards",
                         "suppress_next_mouse_feed_upwards"}
          => suppress_next_keyboard_passthrough
    /\ last_call.op = "on_feed_end" =>
          /\ last_call.requests.suppress => ~last_call.should_feed
          /\ ~suppress_next_keyboard_passthrough
          /\ (/\ requests.ended_suppressed
              /\ ~last_call.requests.suppress
              /\ last_call.requests.feed_upwards
              /\ last_call.keys # NoKeys
              /\ last_call.keys \cap AllSuppressedKeys = {})
                => last_call.should_feed

\* The mouse suppress was called, then feed_upwards, and on_feed_end
\* returned false.
C29_Witness ==
    /\ last_call.op = "on_feed_end"
    /\ last_call.requests.suppress
    /\ last_call.requests.feed_upwards
    /\ last_call.keys = {"STRING_A052"}
    /\ AllSuppressedKeys = {}
    /\ ~last_call.should_feed
    /\ ~suppress_next_keyboard_passthrough

====
